---------------------------- MODULE Spec2Model ----------------------------
(***************************************************************************)
(* Model of the content normalisation code of the document generator:     *)
(*   backend/services/docx_generator.py     _clean_section_content,       *)
(*                                           build_docx_file               *)
(*   backend/services/content_generator.py  generate_content_with_gemini, *)
(*                                           generate_word_sections_...,   *)
(*                                           refine_word_section_...       *)
(*   backend/routers/documents.py           create_word_project,          *)
(*                                           refine_section, export_docx   *)
(*                                                                         *)
(* Text is a sequence of tokens.  A token is one character ("a", ":", the *)
(* line feed LF, ...) or one whole word that no operation of the code     *)
(* ever splits ("section", "Page", ...).                                   *)
(***************************************************************************)
EXTENDS Integers, Sequences, FiniteSets, TLC

VARIABLES san, deck, db, reqs, creation, export

vars == <<san, deck, db, reqs, creation, export>>

(***************************************************************************)
(* Bounds of the model.                                                    *)
(***************************************************************************)
\* longest raw text of the exhaustive sanitizer inputs, in tokens
MaxLen == 4

\* longest collaborator response to a deck request, in array elements
MaxResp == 2

\* largest requested slide count
MaxSlides == 3

\* longest collaborator response to a section batch request, in array elements
MaxBatch == 2

\* number of refine_section requests of one run
MaxRequests == 3

(***************************************************************************)
(* The value of a part of the state that a specification does not use.     *)
(***************************************************************************)
SanOff == [pc |-> "off"]

DeckOff == [pc |-> "off"]

CreationNone == [pc |-> "none"]

ExportNone == [pc |-> "none"]

(***************************************************************************)
(* Tokens.                                                                 *)
(***************************************************************************)
LF == "\n"

CR == "\r"

BS == "\\"

SP == " "

\* str.strip() removes these from both ends (docx_generator.py:38, :82)
Whitespace == {SP, LF, CR}

\* str.lower() on one token
LowerTok(c) ==
    CASE c = "N" -> "n"
      [] c = "A" -> "a"
      [] c = "G" -> "g"
      [] c = "Section" -> "section"
      [] c = "Page" -> "page"
      [] c = "Intro" -> "intro"
      [] OTHER -> c

Lower(s) == [i \in 1..Len(s) |-> LowerTok(s[i])]

StartsWith(s, p) == Len(p) <= Len(s) /\ SubSeq(s, 1, Len(p)) = p

\* all sequences over S of length at most n
SeqsUpTo(S, n) == UNION {[1..k -> S] : k \in 0..n}

(***************************************************************************)
(* String helpers of the Python runtime, on token sequences.               *)
(***************************************************************************)
RECURSIVE ReplaceChar(_, _, _)
\* s.replace(a, r) for a one-token pattern a
ReplaceChar(s, a, r) ==
    IF s = <<>> THEN <<>>
    ELSE <<(IF Head(s) = a THEN r ELSE Head(s))>> \o ReplaceChar(Tail(s), a, r)

RECURSIVE ReplacePair(_, _, _, _)
\* s.replace(ab, r) for a two-token pattern <<a, b>>: leftmost, non-overlapping
ReplacePair(s, a, b, r) ==
    IF Len(s) < 2 THEN s
    ELSE IF s[1] = a /\ s[2] = b
         THEN <<r>> \o ReplacePair(SubSeq(s, 3, Len(s)), a, b, r)
         ELSE <<s[1]>> \o ReplacePair(Tail(s), a, b, r)

RECURSIVE LStrip(_)
LStrip(s) ==
    IF s # <<>> /\ Head(s) \in Whitespace THEN LStrip(Tail(s)) ELSE s

RECURSIVE RStrip(_)
RStrip(s) ==
    IF s # <<>> /\ s[Len(s)] \in Whitespace
    THEN RStrip(SubSeq(s, 1, Len(s) - 1))
    ELSE s

\* str.strip()
Strip(s) == RStrip(LStrip(s))

RECURSIVE SplitLines(_, _)
\* s.split("\n"), cur being the line collected so far
SplitLines(s, cur) ==
    IF s = <<>> THEN <<cur>>
    ELSE IF Head(s) = LF
         THEN <<cur>> \o SplitLines(Tail(s), <<>>)
         ELSE SplitLines(Tail(s), Append(cur, Head(s)))

RECURSIVE JoinLines(_)
\* "\n".join(lines)
JoinLines(lines) ==
    IF lines = <<>> THEN <<>>
    ELSE IF Len(lines) = 1 THEN lines[1]
    ELSE lines[1] \o <<LF>> \o JoinLines(Tail(lines))

(***************************************************************************)
(* docx_generator.py: _clean_section_content                               *)
(***************************************************************************)
\* lines 33-36: newline normalisation, then literal backslash-n to newline
NormaliseNewlines(raw) ==
    ReplacePair(ReplaceChar(ReplacePair(raw, CR, LF, LF), CR, LF), BS, "n", LF)

\* line 38: lines = [l.strip() for l in text.split("\n")]
StrippedLines(text) ==
    LET ls == SplitLines(text, <<>>)
    IN  [i \in 1..Len(ls) |-> Strip(ls[i])]

\* IsMetaLine without the test for "<heading>:": such a line counts as content
IsMetaLineNoColon(first, doc_title_low, heading_low) ==
    LET f_low == Lower(first)
    IN  \/ f_low = doc_title_low
        \/ /\ StartsWith(f_low, <<"page", SP>>)
           /\ \E i \in 1..Len(f_low) : f_low[i] = "section"
        \/ StartsWith(f_low, <<"section", SP>>)
        \/ f_low = heading_low

\* lines 51-59: the test that pops a non-blank first line
IsMetaLine(first, doc_title_low, heading_low) ==
    LET f_low == Lower(first)
        is_doc_title == f_low = doc_title_low
        is_page_section ==
            /\ StartsWith(f_low, <<"page", SP>>)
            /\ \E i \in 1..Len(f_low) : f_low[i] = "section"
        is_section_prefix == StartsWith(f_low, <<"section", SP>>)
        is_heading_exact == f_low = heading_low
        is_heading_with_colon ==
            /\ heading_low # <<>>
            /\ StartsWith(f_low, heading_low \o <<":">>)
    IN  \/ is_doc_title
        \/ is_page_section
        \/ is_section_prefix
        \/ is_heading_exact
        \/ is_heading_with_colon

\* StripMetaTop as an if: at most one leading meta line is popped
StripMetaTopOnce(lines, doc_title_low, heading_low) ==
    IF lines = <<>> THEN <<>>
    ELSE LET first == Strip(lines[1])
         IN  IF first = <<>> \/ IsMetaLine(first, doc_title_low, heading_low)
             THEN Tail(lines)
             ELSE lines

RECURSIVE StripMetaTop(_, _, _)
\* lines 44-64: the while loop over the leading lines
StripMetaTop(lines, doc_title_low, heading_low) ==
    IF lines = <<>> THEN <<>>
    ELSE LET first == Strip(lines[1])
         IN  IF first = <<>>
             THEN StripMetaTop(Tail(lines), doc_title_low, heading_low)
             ELSE IF IsMetaLine(first, doc_title_low, heading_low)
                  THEN StripMetaTop(Tail(lines), doc_title_low, heading_low)
                  ELSE lines

RECURSIVE CollapseBlank(_, _)
\* lines 67-74: collapse duplicate blank lines, cleaned being the list so far
CollapseBlank(lines, cleaned) ==
    IF lines = <<>> THEN cleaned
    ELSE IF Head(lines) = <<>>
         THEN IF cleaned # <<>> /\ cleaned[Len(cleaned)] = <<>>
              THEN CollapseBlank(Tail(lines), cleaned)
              ELSE CollapseBlank(Tail(lines), Append(cleaned, <<>>))
         ELSE CollapseBlank(Tail(lines), Append(cleaned, Head(lines)))

RECURSIVE TrimBlankStart(_)
\* lines 77-78
TrimBlankStart(cleaned) ==
    IF cleaned # <<>> /\ Head(cleaned) = <<>>
    THEN TrimBlankStart(Tail(cleaned))
    ELSE cleaned

RECURSIVE TrimBlankEnd(_)
\* lines 79-80
TrimBlankEnd(cleaned) ==
    IF cleaned # <<>> /\ cleaned[Len(cleaned)] = <<>>
    THEN TrimBlankEnd(SubSeq(cleaned, 1, Len(cleaned) - 1))
    ELSE cleaned

\* lines 38-80: the lines that the function joins and returns
CleanLines(doc_title, heading, raw) ==
    LET lines == StrippedLines(NormaliseNewlines(raw))
        doc_title_low == Lower(Strip(doc_title))
        heading_low == Lower(Strip(heading))
        kept == StripMetaTop(lines, doc_title_low, heading_low)
    IN  TrimBlankEnd(TrimBlankStart(CollapseBlank(kept, <<>>)))

\* lines 15-82
clean_section_content(doc_title, heading, raw) ==
    IF raw = <<>> THEN <<>>
    ELSE Strip(JoinLines(CleanLines(doc_title, heading, raw)))

(***************************************************************************)
(* docx_generator.py: build_docx_file.  The document is the sequence of    *)
(* the items added to it: the title, headings, paragraphs and page breaks. *)
(***************************************************************************)
DocItem(kind, text, size) == [kind |-> kind, text |-> text, size |-> size]

\* line 117: doc.add_page_break()
PageBreak == DocItem("page_break", <<>>, 0)

\* lines 124-133: Pt of the paragraphs of a page with num_sections sections
ParaSize(num_sections) ==
    IF num_sections <= 1 THEN 12 ELSE IF num_sections = 2 THEN 11 ELSE 10

\* lines 124-133: Pt of the headings of a page with num_sections sections
HeadingSize(num_sections) ==
    IF num_sections <= 1 THEN 16 ELSE IF num_sections = 2 THEN 14 ELSE 13

RECURSIVE Paragraphs(_, _)
\* lines 148-152: one paragraph per line that is not blank
Paragraphs(lines, para_size) ==
    IF lines = <<>> THEN <<>>
    ELSE (IF Strip(Head(lines)) # <<>>
          THEN <<DocItem("paragraph", Strip(Head(lines)), para_size)>>
          ELSE <<>>)
         \o Paragraphs(Tail(lines), para_size)

\* lines 136-152: the items of one section
SectionItems(title, section, num_sections) ==
    LET heading == section.heading
        content == clean_section_content(title, heading, section.content)
    IN  (IF heading # <<>>
         THEN <<DocItem("heading", heading, HeadingSize(num_sections))>>
         ELSE <<>>)
        \o (IF content # <<>>
            THEN Paragraphs(SplitLines(content, <<>>), ParaSize(num_sections))
            ELSE <<>>)

RECURSIVE SectionLoop(_, _, _)
\* line 135: for section in page_sections
SectionLoop(title, page_sections, num_sections) ==
    IF page_sections = <<>> THEN <<>>
    ELSE SectionItems(title, Head(page_sections), num_sections)
         \o SectionLoop(title, Tail(page_sections), num_sections)

RECURSIVE SortedKeys(_)
\* line 113: sorted(pages.keys())
SortedKeys(keys) ==
    IF keys = {} THEN <<>>
    ELSE LET least == CHOOSE x \in keys : \A y \in keys : x <= y
         IN  <<least>> \o SortedKeys(keys \ {least})

\* PageLoop with a page break in front of every page, the first included
RECURSIVE PageLoopBreakAlways(_, _, _, _)
PageLoopBreakAlways(title, pages, page_nums, first_page) ==
    IF page_nums = <<>> THEN <<>>
    ELSE LET page_sections == pages[Head(page_nums)]
         IN  <<PageBreak>>
             \o SectionLoop(title, page_sections, Len(page_sections))
             \o PageLoopBreakAlways(title, pages, Tail(page_nums), FALSE)

RECURSIVE PageLoop(_, _, _, _)
\* lines 111-152: the loop over the page numbers, first_page being the flag
PageLoop(title, pages, page_nums, first_page) ==
    IF page_nums = <<>> THEN <<>>
    ELSE LET page_sections == pages[Head(page_nums)]
         IN  (IF ~first_page THEN <<PageBreak>> ELSE <<>>)
             \o SectionLoop(title, page_sections, Len(page_sections))
             \o PageLoop(title, pages, Tail(page_nums), FALSE)

\* lines 106-152: the items of the saved document
build_docx_file(title, pages) ==
    <<DocItem("title", title, 0)>>
    \o PageLoop(title, pages, SortedKeys(DOMAIN pages), TRUE)

(***************************************************************************)
(* JSON values of a collaborator response.  k is the kind; a key that the  *)
(* object does not have is the value JAbsent.                              *)
(***************************************************************************)
JAbsent == [k |-> "absent", s |-> <<>>, n |-> 0, l |-> <<>>]

JNull == [k |-> "null", s |-> <<>>, n |-> 0, l |-> <<>>]

JStr(str) == [k |-> "str", s |-> str, n |-> 0, l |-> <<>>]

JNum(num) == [k |-> "num", s |-> <<>>, n |-> num, l |-> <<>>]

\* a list of strings
JList(items) == [k |-> "list", s |-> <<>>, n |-> 0, l |-> items]

\* Python truth value of a JSON value
Truthy(v) ==
    CASE v.k = "str" -> v.s # <<>>
      [] v.k = "num" -> v.n # 0
      [] v.k = "list" -> v.l # <<>>
      [] OTHER -> FALSE

\* dict.get(key, default)
Get(v, default) == IF v.k = "absent" THEN default ELSE v

\* dict.get(key): None when the key is missing
GetNone(v) == IF v.k = "absent" THEN JNull ELSE v

\* a or b
Or(a, b) == IF Truthy(a) THEN a ELSE b

\* str(v)
Str(v) ==
    CASE v.k = "str" -> v
      [] v.k = "num" -> JStr(<<ToString(v.n)>>)
      [] v.k = "list" -> JStr(<<"[">> \o JoinLines(v.l) \o <<"]">>)
      [] OTHER -> JStr(<<"None">>)

(***************************************************************************)
(* content_generator.py: generate_content_with_gemini                      *)
(***************************************************************************)
\* the four values of enums.SlideLayout (content_generator.py:29)
SlideLayouts == {"title", "bullet", "two_column", "image"}

\* a normalized slide: a dict with the key layout and the keys that are not JAbsent
Slide(layout, title, bullets, left, right, caption, image_url) ==
    [layout |-> layout, title |-> title, bullets |-> bullets, left |-> left,
     right |-> right, caption |-> caption, image_url |-> image_url]

SlideFields == {"title", "bullets", "left", "right", "caption", "image_url"}

\* the keys of a normalized slide
Keys(sl) == {"layout"} \cup {f \in SlideFields : sl[f].k # "absent"}

\* layout == "<name>" (lines 141, 148, 156, 165)
IsLayout(v, name) == v.k = "str" /\ v.s = <<name>>

RECURSIVE StripItems(_)
\* line 183: [str(b).strip() for b in content if str(b).strip()]
StripItems(items) ==
    IF items = <<>> THEN <<>>
    ELSE LET b == Strip(Head(items))
         IN  (IF b # <<>> THEN <<b>> ELSE <<>>) \o StripItems(Tail(items))

\* lines 135-207: the slides one response element appends (none or one)
MapElement(slide) ==
    IF ~slide.obj THEN <<>>
    ELSE IF slide.layout.k # "absent"
    THEN LET layout == slide.layout
             title == Get(slide.title, JStr(<<>>))
         IN  IF IsLayout(layout, "title")
             THEN <<Slide("title", title, JAbsent, JAbsent, JAbsent, JAbsent, JAbsent)>>
             ELSE IF IsLayout(layout, "bullet")
             THEN <<Slide("bullet", title, Or(GetNone(slide.bullets), JList(<<>>)),
                          JAbsent, JAbsent, JAbsent, JAbsent)>>
             ELSE IF IsLayout(layout, "two_column")
             THEN <<Slide("two_column", title, JAbsent,
                          Get(slide.left, JStr(<<>>)), Get(slide.right, JStr(<<>>)),
                          JAbsent, JAbsent)>>
             ELSE IF IsLayout(layout, "image")
             THEN <<Slide("image", title, JAbsent, JAbsent, JAbsent,
                          Get(slide.caption, title), JAbsent)>>
             ELSE <<>>
    ELSE LET title == Get(slide.title, JStr(<<>>))
             content == GetNone(slide.content)
             image == GetNone(slide.image)
             notes == GetNone(slide.notes)
         IN  IF content.k = "list"
             THEN <<Slide("bullet", title, JList(StripItems(content.l)),
                          JAbsent, JAbsent, JAbsent, JAbsent)>>
             ELSE IF Truthy(image)
             THEN <<Slide("image", title, JAbsent, JAbsent, JAbsent,
                          Or(notes, Str(image)), JAbsent)>>
             ELSE <<Slide("title", title, JAbsent, JAbsent, JAbsent, JAbsent, JAbsent)>>

RECURSIVE MapSlides(_)
\* lines 132-207: the loop over the parsed array
MapSlides(data) ==
    IF data = <<>> THEN <<>>
    ELSE MapElement(Head(data)) \o MapSlides(Tail(data))

\* PadSlide labelling the slide by its 0-based position
PadSlideZeroBased(i) ==
    Slide("title", JStr(<<"Slide", SP, ToString(i)>>),
          JAbsent, JAbsent, JAbsent, JAbsent, JAbsent)

\* lines 213-216: the title slide synthesized for 0-based position i
PadSlide(i) ==
    Slide("title", JStr(<<"Slide", SP, ToString(i + 1)>>),
          JAbsent, JAbsent, JAbsent, JAbsent, JAbsent)

\* lines 209-219: pad or truncate to num_slides
RepairCount(normalized_slides, num_slides) ==
    IF Len(normalized_slides) < num_slides
    THEN normalized_slides
         \o [j \in 1..(num_slides - Len(normalized_slides)) |->
                PadSlide(Len(normalized_slides) + j - 1)]
    ELSE IF Len(normalized_slides) > num_slides
    THEN SubSeq(normalized_slides, 1, num_slides)
    ELSE normalized_slides

\* the tokens that [^a-zA-Z0-9] does not match (line 227)
IsAlnum(c) == c \notin {SP, LF, CR, BS, ":", "_", "-", "!"}

\* line 227: the seed of the slide at 0-based position idx
Seed(topic, idx) ==
    LET text == topic \o <<"_", ToString(idx)>>
        kept == SelectSeq(text, IsAlnum)
    IN  IF kept # <<>> THEN kept ELSE <<"slide", "_", ToString(idx)>>

\* line 228
ImageUrl(topic, idx) ==
    JStr(<<"https://picsum.photos/seed/">> \o Seed(topic, idx) \o <<"/1200/800">>)

\* line 224: the caption has to be replaced
CaptionMissing(sl) == ~Truthy(sl.caption) \/ sl.caption.k # "str"

\* line 225: (s.get("title", "") or "") is sliced; a number cannot be
TitleSliceRaises(sl) ==
    LET t == Or(Get(sl.title, JStr(<<>>)), JStr(<<>>))
    IN  t.k \notin {"str", "list"}

\* line 225: (s.get("title", "") or "")[:120]
TitleSlice(sl) ==
    LET t == Or(Get(sl.title, JStr(<<>>)), JStr(<<>>))
    IN  IF t.k = "str" THEN JStr(SubSeq(t.s, 1, IF Len(t.s) < 120 THEN Len(t.s) ELSE 120))
        ELSE JList(SubSeq(t.l, 1, IF Len(t.l) < 120 THEN Len(t.l) ELSE 120))

\* lines 222-228 for the slide at 1-based position p
PostPassSlide(sl, topic, p) ==
    IF sl.layout = "image"
    THEN [sl EXCEPT !.caption = IF CaptionMissing(sl) THEN TitleSlice(sl) ELSE @,
                    !.image_url = ImageUrl(topic, p - 1)]
    ELSE sl

\* lines 222-228: an image slide whose caption is replaced from a title that
\* cannot be sliced raises TypeError
PostPassRaises(slides) ==
    \E p \in 1..Len(slides) :
        /\ slides[p].layout = "image"
        /\ CaptionMissing(slides[p])
        /\ TitleSliceRaises(slides[p])

\* lines 221-228
PostPass(slides, topic) ==
    [p \in 1..Len(slides) |-> PostPassSlide(slides[p], topic, p)]

(***************************************************************************)
(* content_generator.py: generate_word_sections_with_gemini                *)
(***************************************************************************)
\* the tokens that \d matches
IsDigits(c) == c \in {"1", "2", "3", "2025"}

RECURSIVE SkipDigits(_)
SkipDigits(s) ==
    IF s # <<>> /\ IsDigits(Head(s)) THEN SkipDigits(Tail(s)) ELSE s

\* the rest of s after a match of \s*\d+\s* at its start, or <<"nomatch">>
AfterNumber(s) ==
    LET a == LStrip(s)
    IN  IF a # <<>> /\ IsDigits(Head(a)) THEN LStrip(SkipDigits(a)) ELSE <<"nomatch">>

\* lines 334-338: re.sub(r"^(Page|page)\s*\d+\s*[-en dash]\s*(Section|section)\s*\d+\s*\n*", "", content)
StripPageSectionLabel(content) ==
    IF content = <<>> \/ Head(content) \notin {"Page", "page"} THEN content
    ELSE LET b == AfterNumber(Tail(content))
         IN  IF b = <<>> \/ Head(b) \notin {"-", "endash"} THEN content
             ELSE LET c == LStrip(Tail(b))
                  IN  IF c = <<>> \/ Head(c) \notin {"Section", "section"} THEN content
                      ELSE LET d == AfterNumber(Tail(c))
                           IN  IF d = <<"nomatch">> THEN content ELSE d

\* lines 340-344: re.sub(r"^(Section|section)\s*\d+\s*[:\-]\s*", "", content)
StripSectionLabel(content) ==
    IF content = <<>> \/ Head(content) \notin {"Section", "section"} THEN content
    ELSE LET b == AfterNumber(Tail(content))
         IN  IF b = <<>> \/ Head(b) \notin {":", "-"} THEN content
             ELSE LStrip(Tail(b))

\* lines 347-349: drop the first line when it is the topic
StripTopicLine(content, topic) ==
    LET lines == SplitLines(content, <<>>)
        first_line == lines[1]
    IN  IF Strip(first_line) = Strip(topic)
        THEN JoinLines(Tail(lines))
        ELSE content

\* lines 331-351: the cleaned content of one element, content being a string
CleanBatchContent(content, topic) ==
    Strip(StripTopicLine(StripSectionLabel(StripPageSectionLabel(content)), topic))

\* the sort key of one element (line 326): s.get("order_index", 0)
OrderKey(s) == Get(s.order_index, JNum(0))

\* line 326 raises: an element that is no object has no get; keys that are
\* not all numbers or all strings cannot be compared
SortRaises(sections) ==
    \/ \E i \in 1..Len(sections) : ~sections[i].obj
    \/ /\ Len(sections) >= 2
       /\ ~ \/ \A i \in 1..Len(sections) : OrderKey(sections[i]).k = "num"
            \/ \A i \in 1..Len(sections) : OrderKey(sections[i]).k = "str"

RECURSIVE InsertByKey(_, _)
\* x goes after every element of the sorted list whose key is not larger
InsertByKey(sorted, x) ==
    IF sorted = <<>> THEN <<x>>
    ELSE IF x.key < Head(sorted).key
         THEN <<x>> \o sorted
         ELSE <<Head(sorted)>> \o InsertByKey(Tail(sorted), x)

RECURSIVE SortByKey(_, _)
\* a stable sort of records by their number key, acc being the sorted part
SortByKey(items, acc) ==
    IF items = <<>> THEN acc
    ELSE SortByKey(Tail(items), InsertByKey(acc, Head(items)))

\* line 326: sections.sort(key=lambda s: s.get("order_index", 0)), number keys
SortSections(sections) ==
    LET keyed == [i \in 1..Len(sections) |->
                    [key |-> OrderKey(sections[i]).n, val |-> sections[i]]]
        sorted == SortByKey(keyed, <<>>)
    IN  [i \in 1..Len(sorted) |-> sorted[i].val]

\* line 331: s.get("content", "") or ""
ContentOrEmpty(s) == Or(Get(s.content, JStr(<<>>)), JStr(<<>>))

\* lines 334-344 raise: re.sub on a value that is no string
CleanRaises(sections) ==
    \E i \in 1..Len(sections) : ContentOrEmpty(sections[i]).k # "str"

\* lines 316-358: "error" for RuntimeError, else the cleaned list
generate_word_sections_with_gemini(topic, resp) ==
    IF resp.kind # "list" \/ SortRaises(resp.data) \/ CleanRaises(resp.data)
    THEN [status |-> "error", sections |-> <<>>]
    ELSE LET sorted == SortSections(resp.data)
         IN  [status |-> "ok",
              sections |-> [i \in 1..Len(sorted) |->
                  [sorted[i] EXCEPT !.content =
                      JStr(CleanBatchContent(ContentOrEmpty(sorted[i]).s, topic))]]]

(***************************************************************************)
(* documents.py: create_word_project                                       *)
(***************************************************************************)
\* line 48: if project_in.pages and project_in.num_pages
PageMode(project_in) == project_in.pages # <<>> /\ project_in.num_pages # 0

\* lines 50, 64: sorted(project_in.pages, key=lambda p: p.page_number)
SortedPages(project_in) ==
    LET keyed == [i \in 1..Len(project_in.pages) |->
                    [key |-> project_in.pages[i].page_number,
                     val |-> project_in.pages[i]]]
        sorted == SortByKey(keyed, <<>>)
    IN  [i \in 1..Len(sorted) |-> sorted[i].val]

\* line 102: sorted(project_in.sections, key=lambda s: s.order_index)
SortedSections(project_in) ==
    LET keyed == [i \in 1..Len(project_in.sections) |->
                    [key |-> project_in.sections[i].order_index,
                     val |-> project_in.sections[i]]]
        sorted == SortByKey(keyed, <<>>)
    IN  [i \in 1..Len(sorted) |-> sorted[i].val]

RECURSIVE flat_headings(_)
\* lines 49-52: every title of every page, pages in sorted order
flat_headings(pages) ==
    IF pages = <<>> THEN <<>>
    ELSE Head(pages).sections \o flat_headings(Tail(pages))

\* lines 54-57 and 103-108: the headings passed to the batch call
SentHeadings(project_in) ==
    IF PageMode(project_in)
    THEN flat_headings(SortedPages(project_in))
    ELSE LET sorted == SortedSections(project_in)
         IN  [i \in 1..Len(sorted) |-> sorted[i].title]

\* lines 59-61, 110 raise KeyError: an element without the key heading
LookupRaises(generated_sections) ==
    \E i \in 1..Len(generated_sections) : generated_sections[i].heading.k = "absent"

RECURSIVE content_by_heading(_, _)
\* lines 59-61, 110 with lines 69, 114: content_by_heading.get(title, "") or "".
\* The dict is built front to back, so a later element with the same heading
\* replaces an earlier one: the search runs from the back.
content_by_heading(generated_sections, title) ==
    IF generated_sections = <<>> THEN <<>>
    ELSE LET last == generated_sections[Len(generated_sections)]
         IN  IF last.heading = JStr(title)
             THEN last.content.s
             ELSE content_by_heading(
                      SubSeq(generated_sections, 1, Len(generated_sections) - 1), title)

\* lines 66, 68: the first three titles of a page
PageTitles(page_cfg) ==
    SubSeq(page_cfg.sections, 1, IF Len(page_cfg.sections) < 3
                                 THEN Len(page_cfg.sections) ELSE 3)

RECURSIVE PlannedPages(_, _)
\* lines 63-95 without the contents: one planned section per kept title,
\* global_order_index being the next order_index
PlannedPages(pages, global_order_index) ==
    IF pages = <<>> THEN <<>>
    ELSE LET section_titles == PageTitles(Head(pages))
         IN  [idx \in 1..Len(section_titles) |->
                 [title |-> section_titles[idx],
                  order_index |-> global_order_index + idx - 1,
                  page_number |-> Head(pages).page_number,
                  section_index |-> idx]]
             \o PlannedPages(Tail(pages), global_order_index + Len(section_titles))

\* the sections the request creates, in creation order, before their content
\* is resolved; page_number and section_index 0 stand for the unset columns
\* of the flat mode (lines 124-132)
PlannedSections(project_in) ==
    IF PageMode(project_in)
    THEN PlannedPages(SortedPages(project_in), 1)
    ELSE LET sorted == SortedSections(project_in)
         IN  [i \in 1..Len(sorted) |->
                 [title |-> sorted[i].title,
                  order_index |-> sorted[i].order_index,
                  page_number |-> 0,
                  section_index |-> 0]]

\* lines 71, 116: the section needs the fallback call
NeedsFallback(generated_sections, title) ==
    Strip(content_by_heading(generated_sections, title)) = <<>>

\* content_generator.py lines 397-402 as called at documents.py 72-77 and
\* 117-122: fallback[title] is "raises" or the stripped text of the response
FallbackRaises(planned, generated_sections, fallback) ==
    \E i \in 1..Len(planned) :
        /\ NeedsFallback(generated_sections, planned[i].title)
        /\ fallback[planned[i].title] = <<"raises">>

\* lines 69-77, 114-122: the content a section is created with
ResolvedContent(generated_sections, title, fallback) ==
    IF NeedsFallback(generated_sections, title)
    THEN fallback[title]
    ELSE content_by_heading(generated_sections, title)

\* lines 79-93, 124-132: the Section row
NewSection(plan, content) ==
    [title |-> plan.title,
     order_index |-> plan.order_index,
     page_number |-> plan.page_number,
     section_index |-> plan.section_index,
     content |-> content,
     history |-> <<[version |-> 1, content |-> content,
                    prompt |-> "initial generation"]>>]

\* lines 30-138: the outcome of the request: "error" when an exception ends
\* it before db.commit(), else the rows that db.commit() stores
CreateOutcome(project_in, resp, fallback) ==
    LET generated == generate_word_sections_with_gemini(project_in.topic, resp)
        planned == PlannedSections(project_in)
    IN  IF project_in.doc_type # "docx" THEN [status |-> "error", rows |-> <<>>]
        ELSE IF generated.status = "error" THEN [status |-> "error", rows |-> <<>>]
        ELSE IF LookupRaises(generated.sections) THEN [status |-> "error", rows |-> <<>>]
        ELSE IF FallbackRaises(planned, generated.sections, fallback)
        THEN [status |-> "error", rows |-> <<>>]
        ELSE [status |-> "ok",
              rows |-> [i \in 1..Len(planned) |->
                  NewSection(planned[i],
                      ResolvedContent(generated.sections, planned[i].title, fallback))]]

(***************************************************************************)
(* documents.py: refine_section                                            *)
(***************************************************************************)
\* RefineEntry numbering the entry by the length before the append
RefineEntryStaleVersion(history, prompt, new_content) ==
    [version |-> Len(history), prompt |-> prompt, content |-> new_content]

\* lines 199-205: the entry appended to the history that the request read
RefineEntry(history, prompt, new_content) ==
    [version |-> Len(history) + 1, prompt |-> prompt, content |-> new_content]

\* lines 198-205: history = section.history or []; history.append(...)
RefinedHistory(history, prompt, new_content) ==
    Append(history, RefineEntry(history, prompt, new_content))

\* models.Section and the session: db.commit() stores the content and the
\* history assigned at lines 206-207 in the section's row
StoreSection(row, content, history) ==
    [row EXCEPT !.content = content, !.history = history]

(***************************************************************************)
(* Document runs.  db is the sections table, in insertion order; a         *)
(* section's id is its position.  creation is the create_word_project      *)
(* request of the run; reqs are its refine_section requests.               *)
(***************************************************************************)
Workers == 1..MaxRequests

ReqIdle ==
    [pc |-> "idle", sid |-> 0, prompt |-> "", content_read |-> <<>>,
     history_read |-> <<>>, new_content |-> <<>>, order |-> 0]

\* the number of refine requests that have committed
Committed == Cardinality({w \in Workers : reqs[w].pc = "committed"})

\* lines 21-138, one request
create_word_project(project_in, resp, fallback) ==
    /\ creation.pc = "none"
    /\ LET outcome == CreateOutcome(project_in, resp, fallback)
       IN  /\ creation' = [pc |-> outcome.status, project_in |-> project_in,
                           resp |-> resp, fallback |-> fallback]
           /\ db' = IF outcome.status = "ok" THEN db \o outcome.rows ELSE db
    /\ UNCHANGED <<san, deck, reqs, export>>

\* lines 178-189: the query loads the section, or the request ends with 404
RefineRead(w, sid, prompt) ==
    /\ reqs[w].pc = "idle"
    /\ reqs' = [reqs EXCEPT ![w] =
          IF sid \in 1..Len(db)
          THEN [ReqIdle EXCEPT !.pc = "read", !.sid = sid, !.prompt = prompt,
                               !.content_read = db[sid].content,
                               !.history_read = db[sid].history]
          ELSE [ReqIdle EXCEPT !.pc = "notfound", !.sid = sid, !.prompt = prompt]]
    /\ UNCHANGED <<san, deck, db, creation, export>>

\* RefineFails with the content cleared and committed before the error is raised
RefineFailsAfterWrite(w) ==
    /\ reqs[w].pc = "read"
    /\ reqs' = [reqs EXCEPT ![w].pc = "failed"]
    /\ db' = [db EXCEPT ![reqs[w].sid].content = <<>>]
    /\ UNCHANGED <<san, deck, creation, export>>

\* lines 191-196 raising RuntimeError (content_generator.py 400-402): the
\* request ends, nothing is committed
RefineFails(w) ==
    /\ reqs[w].pc = "read"
    /\ reqs' = [reqs EXCEPT ![w].pc = "failed"]
    /\ UNCHANGED <<san, deck, db, creation, export>>

\* RefineCommits without line 207: the content is stored, the history is not
RefineCommitsContentOnly(w, new_content) ==
    /\ reqs[w].pc = "read"
    /\ db' = [db EXCEPT ![reqs[w].sid].content = new_content]
    /\ reqs' = [reqs EXCEPT ![w].pc = "committed", ![w].new_content = new_content,
                            ![w].order = Committed + 1]
    /\ UNCHANGED <<san, deck, creation, export>>

\* lines 191-211 with the collaborator returning new_content
RefineCommits(w, new_content) ==
    /\ reqs[w].pc = "read"
    /\ LET history == RefinedHistory(reqs[w].history_read, reqs[w].prompt, new_content)
       IN  db' = [db EXCEPT ![reqs[w].sid] = StoreSection(@, new_content, history)]
    /\ reqs' = [reqs EXCEPT ![w].pc = "committed", ![w].new_content = new_content,
                            ![w].order = Committed + 1]
    /\ UNCHANGED <<san, deck, creation, export>>

\* a batch response element: obj is FALSE for a JSON value that is no object
BatchElem(heading, order_index, content) ==
    [obj |-> TRUE, heading |-> heading, order_index |-> order_index,
     content |-> content]

BatchElems ==
    { BatchElem(JStr(<<"A">>), JNum(1), JStr(<<"x">>)),
      BatchElem(JStr(<<"A">>), JNum(2), JStr(<<"y">>)),
      BatchElem(JStr(<<"B">>), JNum(2), JStr(<<"z", BS, "n", "z">>)),
      BatchElem(JStr(<<"B">>), JNum(1), JStr(<<SP>>)),
      BatchElem(JStr(<<"A">>), JAbsent,
                JStr(<<"Page", SP, "1", SP, "endash", SP, "Section", SP, "1", LF, "N", LF>>)),
      BatchElem(JStr(<<"C">>), JNum(3), JStr(<<"Section", SP, "2", ":", SP, "w">>)),
      BatchElem(JStr(<<"B">>), JNum(2), JAbsent),
      BatchElem(JAbsent, JNum(1), JStr(<<"q">>)),
      BatchElem(JStr(<<"A">>), JStr(<<"1">>), JStr(<<"s">>)),
      [BatchElem(JAbsent, JAbsent, JAbsent) EXCEPT !.obj = FALSE] }

\* what model.generate_content, the fence removal and json.loads end in
\* (content_generator.py lines 317-323)
BatchResponses ==
    { [kind |-> k, data |-> <<>>] : k \in {"raises", "not_json", "not_list"} }
    \cup { [kind |-> "list", data |-> d] : d \in SeqsUpTo(BatchElems, MaxBatch) }

Headings == { <<"A">>, <<"B">>, <<"C">>, <<"D">> }

\* the outcome of the fallback call per heading: <<"raises">>, or the
\* stripped response text
Fallbacks ==
    { [h \in Headings |-> IF h = <<"A">> THEN a ELSE IF h = <<"B">> THEN b
                          ELSE <<"f">> \o h] :
        a \in {<<"raises">>, <<>>, <<"f", "A">>},
        b \in {<<"raises">>, <<>>, <<"f", "B">>} }

FlatRequest(sections) ==
    [doc_type |-> "docx", title |-> <<"N">>, topic |-> <<"N">>, num_pages |-> 0,
     pages |-> <<>>, sections |-> sections]

PagedRequest(num_pages, pages) ==
    [doc_type |-> "docx", title |-> <<"N">>, topic |-> <<"N">>,
     num_pages |-> num_pages, pages |-> pages, sections |-> <<>>]

SectionIn(title, order_index) == [title |-> title, order_index |-> order_index]

PageCfg(page_number, sections) == [page_number |-> page_number, sections |-> sections]

DocRequests ==
    { FlatRequest(<<>>),
      FlatRequest(<<SectionIn(<<"A">>, 1)>>),
      FlatRequest(<<SectionIn(<<"A">>, 1), SectionIn(<<"B">>, 2)>>),
      FlatRequest(<<SectionIn(<<"B">>, 2), SectionIn(<<"A">>, 1)>>),
      FlatRequest(<<SectionIn(<<"A">>, 1), SectionIn(<<"A">>, 1)>>),
      FlatRequest(<<SectionIn(<<"C">>, 3), SectionIn(<<"A">>, 3), SectionIn(<<"B">>, 1)>>),
      [FlatRequest(<<SectionIn(<<"A">>, 1)>>) EXCEPT !.doc_type = "pptx"],
      [PagedRequest(0, <<PageCfg(1, <<<<"B">>>>)>>) EXCEPT
          !.sections = <<SectionIn(<<"A">>, 1)>>],
      PagedRequest(1, <<PageCfg(1, <<<<"A">>, <<"B">>>>)>>),
      PagedRequest(2, <<PageCfg(2, <<<<"B">>>>), PageCfg(1, <<<<"A">>, <<"A">>>>)>>),
      PagedRequest(2, <<PageCfg(1, <<<<"A">>, <<"B">>, <<"C">>>>), PageCfg(2, <<>>)>>),
      PagedRequest(1, <<PageCfg(1, <<<<"A">>, <<"B">>, <<"C">>, <<"D">>>>)>>),
      PagedRequest(2, <<PageCfg(1, <<<<"A">>, <<"B">>>>), PageCfg(1, <<<<"C">>, <<"D">>>>)>>),
      PagedRequest(2, <<PageCfg(3, <<<<"C">>>>), PageCfg(1, <<<<"A">>>>),
                        PageCfg(2, <<<<"B">>>>)>>) }

InitDoc ==
    /\ san = SanOff
    /\ deck = DeckOff
    /\ db = <<>>
    /\ reqs = [w \in Workers |-> ReqIdle]
    /\ creation = CreationNone
    /\ export = ExportNone

\* one create_word_project request, any request and any collaborator
NextCreate ==
    /\ creation.pc = "none"
    /\ \E project_in \in DocRequests, resp \in BatchResponses, fallback \in Fallbacks :
        create_word_project(project_in, resp, fallback)

SpecCreate == InitDoc /\ [][NextCreate]_vars

\* the create requests of the runs that go on to refine sections
RefineSetupRequests ==
    { FlatRequest(<<SectionIn(<<"A">>, 1), SectionIn(<<"B">>, 2)>>),
      PagedRequest(1, <<PageCfg(1, <<<<"A">>>>)>>) }

RefineSetupResponses ==
    { [kind |-> "raises", data |-> <<>>],
      [kind |-> "list", data |-> <<BatchElem(JStr(<<"A">>), JNum(1), JStr(<<"x">>))>>] }

RefineSetupFallbacks == { [h \in Headings |-> <<"f">> \o h] }

RefinePrompts == {"formal", "shorter"}

\* resp.text.strip() of a refinement (content_generator.py line 399)
RefineTexts == { <<"r1">>, <<"r2">> }

\* no request on the section is between its query and its commit
NoneInFlight(sid) == \A v \in Workers : ~(reqs[v].pc = "read" /\ reqs[v].sid = sid)

CreateForRefine ==
    /\ creation.pc = "none"
    /\ \E project_in \in RefineSetupRequests, resp \in RefineSetupResponses,
          fallback \in RefineSetupFallbacks :
           create_word_project(project_in, resp, fallback)

\* a create request, then refine requests; two requests on one section never overlap
NextSeq ==
    \/ CreateForRefine
    \/ \E w \in Workers, sid \in 1..(Len(db) + 1), prompt \in RefinePrompts :
           NoneInFlight(sid) /\ RefineRead(w, sid, prompt)
    \/ \E w \in Workers : RefineFails(w)
    \/ \E w \in Workers, text \in RefineTexts : RefineCommits(w, text)

SpecSeq == InitDoc /\ [][NextSeq]_vars

\* a create request, then refine requests that interleave freely
NextRace ==
    \/ CreateForRefine
    \/ \E w \in Workers, sid \in 1..(Len(db) + 1), prompt \in RefinePrompts :
           RefineRead(w, sid, prompt)
    \/ \E w \in Workers : RefineFails(w)
    \/ \E w \in Workers, text \in RefineTexts : RefineCommits(w, text)

SpecRace == InitDoc /\ [][NextRace]_vars

(***************************************************************************)
(* documents.py: export_docx, run after the create request of the run.     *)
(* An unset column (None, NULL) is 0, as in PlannedSections.               *)
(***************************************************************************)
\* line 281: s.page_number or 1
PageNum(s) == IF s.page_number = 0 THEN 1 ELSE s.page_number

\* a < b in an ORDER BY column; the database decides whether NULL sorts
\* before or behind the numbers
ColumnLess(a, b, nulls_first) ==
    IF a = b THEN FALSE
    ELSE IF a = 0 THEN nulls_first
    ELSE IF b = 0 THEN ~nulls_first
    ELSE a < b

\* lines 271-275: row a sorts before row b
RowBefore(a, b, nulls_first) ==
    \/ ColumnLess(a.page_number, b.page_number, nulls_first)
    \/ /\ a.page_number = b.page_number
       /\ \/ ColumnLess(a.section_index, b.section_index, nulls_first)
          \/ /\ a.section_index = b.section_index
             /\ a.order_index < b.order_index

\* the orders of n rows
RowOrders(n) ==
    {q \in [1..n -> 1..n] : \A i, j \in 1..n : q[i] = q[j] => i = j}

\* lines 268-277: the orders in which the query may return the rows; rows
\* equal in all three columns come in any order
QueryOrders(rows, nulls_first) ==
    {q \in RowOrders(Len(rows)) :
        \A i, j \in 1..Len(rows) :
            i < j => ~RowBefore(rows[q[j]], rows[q[i]], nulls_first)}

\* lines 279-289: the dict from page number to the sections of the page
BuildPages(sections) ==
    [page_num \in {PageNum(sections[i]) : i \in 1..Len(sections)} |->
        LET bucket == SelectSeq(sections, LAMBDA s : PageNum(s) = page_num)
        IN  [i \in 1..Len(bucket) |->
                [heading |-> bucket[i].title, content |-> bucket[i].content]]]

\* lines 246-297, one request: 404 without a committed project, else the
\* query returns the rows in the order q and the document is built
export_docx(q) ==
    /\ export.pc = "none"
    /\ IF creation.pc # "ok"
       THEN export' = [pc |-> "done", status |-> "not_found", sections |-> <<>>,
                       pages |-> <<>>, doc |-> <<>>]
       ELSE LET sections == [i \in 1..Len(db) |-> db[q[i]]]
                pages == BuildPages(sections)
            IN  export' = [pc |-> "done", status |-> "ok", sections |-> sections,
                           pages |-> pages,
                           doc |-> build_docx_file(creation.project_in.title, pages)]
    /\ UNCHANGED <<san, deck, db, reqs, creation>>

\* an export request, on any order the database may return
ExportStep ==
    /\ export.pc = "none"
    /\ \E nulls_first \in BOOLEAN : \E q \in QueryOrders(db, nulls_first) :
           export_docx(q)

\* a create request and an export request
NextExport == NextCreate \/ ExportStep

SpecExport == InitDoc /\ [][NextExport]_vars

(***************************************************************************)
(* Deck runs: one call generate_content_with_gemini(topic, num_slides)     *)
(* against a collaborator whose response is drawn from DeckResponses.      *)
(***************************************************************************)
\* a response element: obj is FALSE for a JSON value that is not an object
Elem(layout, title, caption, bullets, left, right, content, image, notes) ==
    [obj |-> TRUE, layout |-> layout, title |-> title, caption |-> caption,
     bullets |-> bullets, left |-> left, right |-> right, content |-> content,
     image |-> image, notes |-> notes]

NonObject == [Elem(JAbsent, JAbsent, JAbsent, JAbsent, JAbsent, JAbsent,
                   JAbsent, JAbsent, JAbsent) EXCEPT !.obj = FALSE]

\* an element that declares a layout
Declared(layout, title, caption, bullets, left, right) ==
    Elem(layout, title, caption, bullets, left, right, JAbsent, JAbsent, JAbsent)

\* an element of the generic shape (lines 111-117)
Generic(title, content, image, notes) ==
    Elem(JAbsent, title, JAbsent, JAbsent, JAbsent, JAbsent, content, image, notes)

SlideElems ==
    { NonObject,
      Declared(JStr(<<"title">>), JStr(<<"t1">>), JAbsent, JAbsent, JAbsent, JAbsent),
      Declared(JStr(<<"title">>), JAbsent, JAbsent, JList(<<<<"b">>>>), JAbsent, JAbsent),
      Declared(JStr(<<"bullet">>), JStr(<<"t2">>), JAbsent,
               JList(<<<<"b1">>, <<"b2">>>>), JAbsent, JAbsent),
      Declared(JStr(<<"bullet">>), JStr(<<"t3">>), JAbsent, JNull, JAbsent, JAbsent),
      Declared(JStr(<<"two_column">>), JStr(<<"t4">>), JAbsent, JAbsent,
               JStr(<<"l">>), JStr(<<"r">>)),
      Declared(JStr(<<"two_column">>), JNum(7), JAbsent, JAbsent, JAbsent, JStr(<<"r">>)),
      Declared(JStr(<<"image">>), JStr(<<"t5">>), JStr(<<"c5">>), JAbsent, JAbsent, JAbsent),
      Declared(JStr(<<"image">>), JStr(<<"t6">>), JAbsent, JAbsent, JAbsent, JAbsent),
      Declared(JStr(<<"image">>), JAbsent, JStr(<<>>), JAbsent, JAbsent, JAbsent),
      Declared(JStr(<<"image">>), JStr(<<"t7">>), JNum(3), JAbsent, JAbsent, JAbsent),
      Declared(JStr(<<"image">>), JNum(2024), JAbsent, JAbsent, JAbsent, JAbsent),
      Declared(JStr(<<"chart">>), JStr(<<"t8">>), JAbsent, JAbsent, JAbsent, JAbsent),
      Declared(JNull, JStr(<<"t9">>), JAbsent, JAbsent, JAbsent, JAbsent),
      Generic(JStr(<<"g1">>), JList(<<<<SP, "b", SP>>, <<SP>>, <<"c">>>>), JStr(<<"i">>), JAbsent),
      Generic(JStr(<<"g2">>), JStr(<<"text">>), JStr(<<"i2">>), JStr(<<"n2">>)),
      Generic(JStr(<<"g3">>), JAbsent, JStr(<<"i3">>), JAbsent),
      Generic(JStr(<<"g4">>), JAbsent, JNum(5), JNum(9)),
      Generic(JStr(<<"g5">>), JStr(<<"text">>), JAbsent, JStr(<<"n5">>)),
      Generic(JAbsent, JAbsent, JStr(<<>>), JAbsent) }

\* what model.generate_content, the fence removal and json.loads end in
\* (lines 124-130): an exception, a JSON value that is no list, or a list
DeckResponses ==
    { [kind |-> k, data |-> <<>>] : k \in {"raises", "not_json", "not_list"} }
    \cup { [kind |-> "list", data |-> d] : d \in SeqsUpTo(SlideElems, MaxResp) }

DeckTopics == { <<"EV", SP, "2025", "!">>, <<"!", SP>> }

InitDeck ==
    /\ \E topic \in DeckTopics, n \in 1..MaxSlides, resp \in DeckResponses :
         deck = [pc |-> "ready", topic |-> topic, num_slides |-> n, resp |-> resp,
                 mapped |-> <<>>, repaired |-> <<>>, result |-> <<>>,
                 status |-> "none"]
    /\ san = SanOff
    /\ db = <<>>
    /\ reqs = <<>>
    /\ creation = CreationNone
    /\ export = ExportNone

\* lines 123-234: the whole call.  mapped and repaired record the list after
\* the mapping loop and after the count repair; status is "ok" when the list
\* result is returned and "error" when RuntimeError is raised.
generate_content_with_gemini ==
    /\ deck.pc = "ready"
    /\ LET mapped == MapSlides(deck.resp.data)
           repaired == RepairCount(mapped, deck.num_slides)
       IN  IF deck.resp.kind # "list"
           THEN deck' = [deck EXCEPT !.pc = "done", !.status = "error"]
           ELSE IF PostPassRaises(repaired)
           THEN deck' = [deck EXCEPT !.pc = "done", !.status = "error",
                                     !.mapped = mapped, !.repaired = repaired]
           ELSE deck' = [deck EXCEPT !.pc = "done", !.status = "ok",
                                     !.mapped = mapped, !.repaired = repaired,
                                     !.result = PostPass(repaired, deck.topic)]
    /\ UNCHANGED <<san, db, reqs, creation, export>>

NextDeck == generate_content_with_gemini

SpecDeck == InitDeck /\ [][NextDeck]_vars

\* the keys the layout tag requires
LayoutKeys(layout) ==
    CASE layout = "title" -> {"layout", "title"}
      [] layout = "bullet" -> {"layout", "title", "bullets"}
      [] layout = "two_column" -> {"layout", "title", "left", "right"}
      [] layout = "image" -> {"layout", "title", "caption", "image_url"}
      [] OTHER -> {}

\* every slide of a list has one of the four tags and exactly its fields
WellShaped(slides) ==
    \A p \in 1..Len(slides) :
        /\ slides[p].layout \in SlideLayouts
        /\ Keys(slides[p]) = LayoutKeys(slides[p].layout)

\* C1: every response that parses to a JSON array yields exactly num_slides
\* slides, each with one of the four layout tags and exactly its fields.
ExactlyNWellShapedSlides ==
    (deck.pc = "done" /\ deck.resp.kind = "list") =>
        /\ deck.status = "ok"
        /\ Len(deck.result) = deck.num_slides
        /\ WellShaped(deck.result)

\* the part of C1 that the code keeps: whenever a list is returned it has
\* exactly num_slides well-shaped slides
ReturnedDeckHasNWellShapedSlides ==
    (deck.pc = "done" /\ deck.status = "ok") =>
        /\ Len(deck.result) = deck.num_slides
        /\ WellShaped(deck.result)

\* the smaller of two numbers
Min(a, b) == IF a < b THEN a ELSE b

\* the fields of a mapped slide that the pass over the image slides leaves alone
SameBody(a, b) ==
    /\ a.layout = b.layout
    /\ a.title = b.title
    /\ a.bullets = b.bullets
    /\ a.left = b.left
    /\ a.right = b.right

\* C2: after the count repair the first min(k, N) slides are the first
\* min(k, N) mapped slides in response order, the slides at positions
\* k+1..N are title slides titled "Slide i", and nothing follows the N-th;
\* the returned slides keep that order and those bodies.
CardinalityRepairAffectsTailOnly ==
    (deck.pc = "done" /\ deck.resp.kind = "list") =>
        LET k == Len(deck.mapped)
            n == deck.num_slides
            m == Min(k, n)
        IN  /\ Len(deck.repaired) = n
            /\ SubSeq(deck.repaired, 1, m) = SubSeq(deck.mapped, 1, m)
            /\ \A i \in (k + 1)..n :
                   /\ deck.repaired[i].layout = "title"
                   /\ deck.repaired[i].title = JStr(<<"Slide", SP, ToString(i)>>)
                   /\ Keys(deck.repaired[i]) = {"layout", "title"}
            /\ deck.status = "ok" =>
                   /\ Len(deck.result) = n
                   /\ \A i \in 1..m : SameBody(deck.result[i], deck.mapped[i])
                   /\ \A i \in (k + 1)..n : deck.result[i] = deck.repaired[i]

\* a deck padded behind two mapped slides, the second an image slide
WitnessPaddedDeck ==
    /\ deck.pc = "done"
    /\ deck.status = "ok"
    /\ Len(deck.mapped) = 2
    /\ deck.num_slides = 3
    /\ deck.result[2].layout = "image"
    /\ deck.result[3].title = JStr(<<"Slide", SP, "3">>)

\* a deck cut to its first slide
WitnessTruncatedDeck ==
    /\ deck.pc = "done"
    /\ deck.status = "ok"
    /\ Len(deck.mapped) = 2
    /\ deck.num_slides = 1
    /\ deck.result = PostPass(<<deck.mapped[1]>>, deck.topic)

(***************************************************************************)
(* Sanitizer runs: the inputs are every raw text of at most MaxLen tokens  *)
(* over SanAlphabet, and the longer texts of SanExamples.                  *)
(***************************************************************************)
SanAlphabet == {LF, CR, BS, SP, "n", "a", ":", "section"}

SanExamples ==
    { <<"N", LF, "g", LF, "N", SP, "g">>,
      <<"Page", SP, "2", SP, "-", SP, "Section", SP, "3", LF,
        "Intro", ":", SP, "g">>,
      <<"Section", SP, "2", ":", SP, "g", LF, "a">>,
      <<"Page", SP, "1", SP, "-", SP, "Section", SP, "1", LF, "a">>,
      <<"page", SP, "g", SP, "section", LF, "a">>,
      <<"Section", SP, "g", LF, "a">>,
      <<"a", LF, LF, LF, "g", LF, LF>>,
      <<SP, CR, LF, "a", CR, "g", BS, "n", BS, "n", "n">>,
      <<"Intro", LF, "intro", ":", LF, "g", LF, "Intro">> }

SanInputs ==
    { [doc_title |-> <<"N">>, heading |-> h, raw |-> x] :
        h \in {<<"A">>, <<>>}, x \in SeqsUpTo(SanAlphabet, MaxLen) }
    \cup
    { [doc_title |-> <<"N">>, heading |-> h, raw |-> x] :
        h \in {<<"Intro">>, <<"A">>}, x \in SanExamples }

InitSan ==
    /\ \E inp \in SanInputs :
         san = [pc |-> "ready", doc_title |-> inp.doc_title,
                heading |-> inp.heading, raw |-> inp.raw,
                out |-> <<>>, again |-> <<>>]
    /\ deck = DeckOff
    /\ db = <<>>
    /\ reqs = <<>>
    /\ creation = CreationNone
    /\ export = ExportNone

\* one call _clean_section_content(doc_title, heading, raw)
Clean ==
    /\ san.pc = "ready"
    /\ san' = [san EXCEPT !.pc = "cleaned",
                          !.out = clean_section_content(san.doc_title, san.heading, san.raw)]
    /\ UNCHANGED <<deck, db, reqs, creation, export>>

\* a second call on the result of the first
CleanAgain ==
    /\ san.pc = "cleaned"
    /\ san' = [san EXCEPT !.pc = "recleaned",
                          !.again = clean_section_content(san.doc_title, san.heading, san.out)]
    /\ UNCHANGED <<deck, db, reqs, creation, export>>

NextSan == Clean \/ CleanAgain

SpecSan == InitSan /\ [][NextSan]_vars

\* C9: sanitizing a sanitized text again changes nothing.
SanitizerIdempotent ==
    san.pc = "recleaned" => san.again = san.out

\* the first token after position i that is not a space is a number
NumberFollows(line, i) ==
    \E j \in (i + 1)..Len(line) :
        /\ IsDigits(line[j])
        /\ \A m \in (i + 1)..(j - 1) : line[m] = SP

\* the closed set of C10: the title, "Page <n> ... Section <n>",
\* "Section <n>", the heading, "<heading>:"
ClosedSetLine(first, doc_title_low, heading_low) ==
    LET f_low == Lower(first)
    IN  \/ f_low = doc_title_low
        \/ /\ f_low[1] = "page"
           /\ NumberFollows(f_low, 1)
           /\ \E i \in 2..Len(f_low) : f_low[i] = "section" /\ NumberFollows(f_low, i)
        \/ f_low[1] = "section" /\ NumberFollows(f_low, 1)
        \/ f_low = heading_low
        \/ heading_low # <<>> /\ StartsWith(f_low, heading_low \o <<":">>)

RECURSIVE DropClosedSetTop(_, _, _)
\* the lines left when only the leading blank and closed-set lines go
DropClosedSetTop(lines, doc_title_low, heading_low) ==
    IF lines = <<>> THEN <<>>
    ELSE IF lines[1] = <<>> \/ ClosedSetLine(lines[1], doc_title_low, heading_low)
         THEN DropClosedSetTop(Tail(lines), doc_title_low, heading_low)
         ELSE lines

NonBlank(lines) == SelectSeq(lines, LAMBDA l : l # <<>>)

\* C10: the non-blank lines of the result are the non-blank lines of the
\* input without the leading run of closed-set lines, in order: a line
\* outside the closed set, or behind the first ordinary line, is kept.
OnlyClosedSetStripped ==
    (san.pc = "cleaned" /\ san.raw # <<>>) =>
        NonBlank(SplitLines(san.out, <<>>)) =
            NonBlank(DropClosedSetTop(StrippedLines(NormaliseNewlines(san.raw)),
                                      Lower(Strip(san.doc_title)),
                                      Lower(Strip(san.heading))))

\* a run whose second cleaning had a noise line, a blank run or an escape to undo
WitnessRecleaned ==
    /\ san.pc = "recleaned"
    /\ san.out # <<>>
    /\ san.out # san.raw
    /\ Len(SplitLines(san.out, <<>>)) >= 2

\* the lines of the run's raw text as the sanitizer splits them
RawLines == StrippedLines(NormaliseNewlines(san.raw))

\* line k starts with "<heading>:" and only blank and noise lines precede it
LeadingHeadingColonLine(k) ==
    LET heading_low == Lower(Strip(san.heading))
        doc_title_low == Lower(Strip(san.doc_title))
    IN  /\ heading_low # <<>>
        /\ StartsWith(Lower(RawLines[k]), heading_low \o <<":">>)
        /\ \A i \in 1..(k - 1) :
               \/ RawLines[i] = <<>>
               \/ IsMetaLine(RawLines[i], doc_title_low, heading_low)

\* what follows "<heading>:" on line k
RestOfHeadingLine(k) ==
    Strip(SubSeq(RawLines[k], Len(Lower(Strip(san.heading))) + 2, Len(RawLines[k])))

\* C11 (as stated): of a leading line "<heading>: <rest>" only the prefix
\* "<heading>:" is stripped, and the result starts with <rest>.
HeadingPrefixStrippedRestKept ==
    (san.pc = "cleaned" /\ san.raw # <<>>) =>
        \A k \in 1..Len(RawLines) :
            (LeadingHeadingColonLine(k) /\ RestOfHeadingLine(k) # <<>>) =>
                StartsWith(san.out, RestOfHeadingLine(k))

\* C11 (amended): a leading line that starts with "<heading>:" is dropped
\* whole, its <rest> included: the result is the sanitized text of the lines
\* behind it, and a text of nothing but noise lines and such a line
\* sanitizes to the empty string.
HeadingColonLineDroppedWhole ==
    (san.pc = "cleaned" /\ san.raw # <<>>) =>
        \A k \in 1..Len(RawLines) :
            LeadingHeadingColonLine(k) =>
                san.out = clean_section_content(san.doc_title, san.heading,
                              JoinLines(SubSeq(RawLines, k + 1, Len(RawLines))))

\* the text "Page 2 - Section 3\nIntro: g" sanitized under the heading "Intro"
WitnessHeadingColonExample ==
    /\ san.pc = "cleaned"
    /\ san.heading = <<"Intro">>
    /\ san.raw = <<"Page", SP, "2", SP, "-", SP, "Section", SP, "3", LF,
                   "Intro", ":", SP, "g">>
    /\ LeadingHeadingColonLine(2)
    /\ RestOfHeadingLine(2) = <<"g">>
    /\ san.out = <<>>

(***************************************************************************)
(* Properties of the document runs.                                        *)
(***************************************************************************)
\* the committed refine requests on a section
CommittedOn(sid) == {w \in Workers : reqs[w].pc = "committed" /\ reqs[w].sid = sid}

\* the history of a section is numbered 1..n from "initial generation", and
\* the content is that of the last entry
WellFormedHistory(row) ==
    /\ Len(row.history) >= 1
    /\ \A i \in 1..Len(row.history) : row.history[i].version = i
    /\ row.history[1].prompt = "initial generation"
    /\ row.content = row.history[Len(row.history)].content

\* every entry of the old history is in the new one, at its place
Extends(new_history, old_history) ==
    /\ Len(new_history) >= Len(old_history)
    /\ SubSeq(new_history, 1, Len(old_history)) = old_history

\* C3: without overlapping requests on a section, every step leaves each
\* section with a history numbered 1..n from "initial generation", of
\* length 1 + the successful refinements, whose last entry holds the
\* content, and no step changes or removes an entry.
HistoryAppendOnly ==
    [][ /\ \A sid \in 1..Len(db') :
              /\ WellFormedHistory(db'[sid])
              /\ Len(db'[sid].history) =
                     1 + Cardinality({w \in Workers : reqs'[w].pc = "committed"
                                                      /\ reqs'[w].sid = sid})
        /\ \A sid \in 1..Len(db) :
              /\ Len(db') >= Len(db)
              /\ Extends(db'[sid].history, db[sid].history) ]_vars

\* a section refined twice with a failed request in between or after
WitnessTwiceRefined ==
    \E sid \in 1..Len(db) :
        /\ Len(db[sid].history) = 3
        /\ db[sid].history[3].prompt \in RefinePrompts
        /\ \E w \in Workers : reqs[w].pc = "failed" /\ reqs[w].sid = sid

\* C4: the step in which the collaborator call of a refine request fails
\* changes no section, and the target section is as the request read it.
FailedRefineChangesNothing ==
    [][ \A w \in Workers :
            (reqs[w].pc = "read" /\ reqs'[w].pc = "failed") =>
                /\ db' = db
                /\ db'[reqs[w].sid].content = reqs[w].content_read
                /\ db'[reqs[w].sid].history = reqs[w].history_read ]_vars

\* a request that failed on a section refined before, beside another section
WitnessFailedRefine ==
    \E w \in Workers :
        /\ reqs[w].pc = "failed"
        /\ Len(db) = 2
        /\ Len(reqs[w].history_read) = 2
        /\ db[reqs[w].sid].history = reqs[w].history_read

\* the request that committed last on a section
LastCommitter(sid) ==
    CHOOSE w \in CommittedOn(sid) : \A v \in CommittedOn(sid) : reqs[v].order <= reqs[w].order

\* C5: however refine requests on a section interleave, its history is the
\* history the last committer read plus that request's one entry, numbered
\* 1..n without duplicate or gap, and the content is that of the last entry.
LastWriterWins ==
    \A sid \in 1..Len(db) :
        CommittedOn(sid) # {} =>
            LET w == reqs[LastCommitter(sid)]
                n == Len(w.history_read) + 1
            IN  /\ Len(db[sid].history) = n
                /\ SubSeq(db[sid].history, 1, n - 1) = w.history_read
                /\ db[sid].history[n] =
                       [version |-> n, prompt |-> w.prompt, content |-> w.new_content]
                /\ \A i \in 1..n : db[sid].history[i].version = i
                /\ db[sid].content = db[sid].history[n].content

\* two requests that both read the fresh section and both committed
WitnessInterleavedRefines ==
    \E sid \in 1..Len(db) : \E v, w \in CommittedOn(sid) :
        /\ v # w
        /\ Len(reqs[v].history_read) = 1
        /\ Len(reqs[w].history_read) = 1
        /\ reqs[v].new_content # reqs[w].new_content
        /\ reqs[v].order < reqs[w].order

\* the cleaned batch elements of the run's create request
Generated == generate_word_sections_with_gemini(creation.project_in.topic, creation.resp).sections

\* the batch call of the run's create request returned and the lookup was built
BatchSucceeded ==
    /\ creation.pc \in {"ok", "error"}
    /\ creation.project_in.doc_type = "docx"
    /\ generate_word_sections_with_gemini(creation.project_in.topic, creation.resp).status = "ok"
    /\ ~LookupRaises(Generated)

\* C6: after a successful create request the headings of the created
\* sections are the headings sent to the batch call, in that order.
EveryRequestedHeadingCreated ==
    creation.pc = "ok" =>
        [i \in 1..Len(db) |-> db[i].title] = SentHeadings(creation.project_in)

\* the positions of the batch elements with the heading, in sorted order
Matches(title) == {j \in 1..Len(Generated) : Generated[j].heading = JStr(title)}

\* the first of them
FirstMatch(title) == CHOOSE j \in Matches(title) : \A m \in Matches(title) : j <= m

\* C7: a section whose heading two or more batch elements carry is created
\* with the content of the first of them (when that content is not blank).
FirstMatchWins ==
    creation.pc = "ok" =>
        \A i \in 1..Len(db) :
            ( /\ Cardinality(Matches(db[i].title)) >= 2
              /\ Strip(Generated[FirstMatch(db[i].title)].content.s) # <<>> )
            => db[i].content = Generated[FirstMatch(db[i].title)].content.s

\* C8: when the batch call succeeded and a fallback call fails, the request
\* still succeeds, that heading's section has the empty body and every
\* planned section is created.
FallbackFailureYieldsEmptyBody ==
    LET planned == PlannedSections(creation.project_in)
    IN  (BatchSucceeded /\ FallbackRaises(planned, Generated, creation.fallback)) =>
            /\ creation.pc = "ok"
            /\ Len(db) = Len(planned)
            /\ \A i \in 1..Len(planned) :
                   /\ db[i].title = planned[i].title
                   /\ ( /\ NeedsFallback(Generated, planned[i].title)
                        /\ creation.fallback[planned[i].title] = <<"raises">> )
                      => db[i].content = <<>>

\* the headings and page breaks of the exported document, in order
Skeleton == SelectSeq(export.doc, LAMBDA it : it.kind \in {"heading", "page_break"})

\* the grouping of the reflow: ascending page, then section_index, then order_index
ReflowBefore(a, b) ==
    \/ PageNum(a) < PageNum(b)
    \/ /\ PageNum(a) = PageNum(b)
       /\ \/ a.section_index < b.section_index
          \/ a.section_index = b.section_index /\ a.order_index < b.order_index

\* q lists the stored rows in an order of the reflow
ReflowOrder(q) ==
    \A i, j \in 1..Len(db) : i < j => ~ReflowBefore(db[q[j]], db[q[i]])

RECURSIVE ReflowSkeleton(_, _)
\* the headings of the rows in the order q from position i on, with one page
\* break wherever the page changes
ReflowSkeleton(q, i) ==
    IF i > Len(db) THEN <<>>
    ELSE (IF i > 1 /\ PageNum(db[q[i]]) # PageNum(db[q[i - 1]])
          THEN <<"page_break">> ELSE <<>>)
         \o <<db[q[i]].title>>
         \o ReflowSkeleton(q, i + 1)

\* the page breaks of the exported document
PageBreaks == {i \in 1..Len(export.doc) : export.doc[i].kind = "page_break"}

\* the pages of the stored sections
StoredPages == {PageNum(db[i]) : i \in 1..Len(db)}

\* C12: the exported document lists the sections by ascending page number
\* (absent counting as 1), within a page by section_index and then
\* order_index, with no page break before the first page and exactly one
\* before every later page.
ExportReflowOrdering ==
    (export.pc = "done" /\ export.status = "ok") =>
        /\ \E q \in RowOrders(Len(db)) :
              /\ ReflowOrder(q)
              /\ [i \in 1..Len(Skeleton) |->
                     IF Skeleton[i].kind = "page_break" THEN "page_break"
                     ELSE Skeleton[i].text]
                 = ReflowSkeleton(q, 1)
        /\ export.doc[1].kind = "title"
        /\ Cardinality(PageBreaks) =
               (IF StoredPages = {} THEN 0 ELSE Cardinality(StoredPages) - 1)

\* a document of three pages requested as pages 3, 1, 2 and exported
WitnessThreePagesExported ==
    /\ export.pc = "done"
    /\ export.status = "ok"
    /\ [i \in 1..Len(db) |-> db[i].page_number] = <<1, 2, 3>>
    /\ [i \in 1..Len(creation.project_in.pages) |->
           creation.project_in.pages[i].page_number] = <<3, 1, 2>>
    /\ Cardinality(PageBreaks) = 2

\* a flat document, its page numbers unset, exported as one page
WitnessFlatExported ==
    /\ export.pc = "done"
    /\ export.status = "ok"
    /\ Len(db) = 3
    /\ \A i \in 1..Len(db) : db[i].page_number = 0
    /\ DOMAIN export.pages = {1}
    /\ PageBreaks = {}

\* the image reference the claim describes for the slide at 1-based position p
SeededUrl(topic, p) ==
    JStr(<<"https://picsum.photos/seed/">>
         \o SelectSeq(topic \o <<"_", ToString(p - 1)>>, IsAlnum)
         \o <<"/1200/800">>)

\* C13: every returned image slide, declared or inferred, has a caption
\* that is a non-empty string and an image_url whose seed is the topic and
\* the slide index without their non-alphanumeric characters.
ImageSlidesCaptionedAndSeeded ==
    (deck.pc = "done" /\ deck.status = "ok") =>
        \A p \in 1..Len(deck.result) :
            deck.result[p].layout = "image" =>
                /\ deck.result[p].caption.k = "str"
                /\ deck.result[p].caption.s # <<>>
                /\ deck.result[p].image_url = SeededUrl(deck.topic, p)

\* the created sections of page page_number among the first i
OnPage(page_number, i) == {j \in 1..i : db[j].page_number = page_number}

\* C14: after a successful page-mode create request the order_index of the
\* created sections runs 1..M along ascending page number and in-page
\* position, every section_index is the 1-based position of the section
\* within its page and at most 3, and no page has more than 3 sections.
PageModeIndexing ==
    (creation.pc = "ok" /\ PageMode(creation.project_in)) =>
        /\ \A i \in 1..Len(db) : db[i].order_index = i
        /\ \A i, j \in 1..Len(db) : i < j => db[i].page_number <= db[j].page_number
        /\ \A i \in 1..Len(db) :
              /\ db[i].section_index \in 1..3
              /\ db[i].section_index = Cardinality(OnPage(db[i].page_number, i))
        /\ \A i \in 1..Len(db) : Cardinality(OnPage(db[i].page_number, Len(db))) <= 3

\* the pages of the run's create request carry distinct page numbers
DistinctPageNumbers ==
    \A i, j \in 1..Len(creation.project_in.pages) :
        creation.project_in.pages[i].page_number = creation.project_in.pages[j].page_number
            => i = j

\* the part of C14 the code keeps: the indexing holds whenever no two page
\* configurations share a page number
PageModeIndexingOfDistinctPages ==
    (creation.pc = "ok" /\ PageMode(creation.project_in) /\ DistinctPageNumbers) =>
        /\ \A i \in 1..Len(db) : db[i].order_index = i
        /\ \A i \in 1..Len(db) :
              /\ db[i].section_index \in 1..3
              /\ db[i].section_index = Cardinality(OnPage(db[i].page_number, i))
        /\ \A i \in 1..Len(db) : Cardinality(OnPage(db[i].page_number, Len(db))) <= 3

\* a batch element of the shape the prompt asks for
WellFormedElem(e) ==
    e.obj /\ e.heading.k = "str" /\ e.order_index.k = "num" /\ e.content.k = "str"

\* an element that is no object, or an object without one of its keys
MalformedElem(e) ==
    \/ ~e.obj
    \/ e.heading.k = "absent"
    \/ e.order_index.k = "absent"
    \/ e.content.k = "absent"

\* an object with its heading that lacks order_index or content
LacksOrderOrContent(e) ==
    /\ e.obj
    /\ e.heading.k = "str"
    /\ e.order_index.k \in {"absent", "num"}
    /\ e.content.k \in {"absent", "str"}
    /\ e.order_index.k = "absent" \/ e.content.k = "absent"

\* the batch call of the run's create request answered with a list, and no
\* fallback call of the request fails
ListAnsweredFallbackSound ==
    /\ creation.pc \in {"ok", "error"}
    /\ creation.project_in.doc_type = "docx"
    /\ creation.resp.kind = "list"
    /\ \A i \in 1..Len(PlannedSections(creation.project_in)) :
           creation.fallback[PlannedSections(creation.project_in)[i].title] # <<"raises">>

\* the cleaned contents the response offers for a heading
Offered(title) ==
    {CleanBatchContent(creation.resp.data[j].content.s, creation.project_in.topic) :
        j \in {m \in 1..Len(creation.resp.data) :
                  /\ creation.resp.data[m].obj
                  /\ creation.resp.data[m].heading = JStr(title)
                  /\ creation.resp.data[m].content.k = "str"}}

\* the request succeeded, every planned section exists, and a section has
\* content the response offers for its heading or, when it offers none that
\* is not blank, the text of the fallback call
CreatedWithBackfill ==
    LET planned == PlannedSections(creation.project_in)
    IN  /\ creation.pc = "ok"
        /\ Len(db) = Len(planned)
        /\ \A i \in 1..Len(planned) :
              /\ db[i].title = planned[i].title
              /\ db[i].content \in Offered(planned[i].title)
                                     \cup {creation.fallback[planned[i].title]}
              /\ (\A c \in Offered(planned[i].title) : Strip(c) = <<>>)
                     => db[i].content = creation.fallback[planned[i].title]

\* C15: a batch response with a malformed element (no object, or an object
\* without heading, order_index or content) among well-formed ones is no
\* error: the request succeeds and the headings left without content are
\* backfilled by the fallback call.
MalformedElementNotAnError ==
    ( /\ ListAnsweredFallbackSound
      /\ \A j \in 1..Len(creation.resp.data) :
             WellFormedElem(creation.resp.data[j]) \/ MalformedElem(creation.resp.data[j])
      /\ \E j \in 1..Len(creation.resp.data) : MalformedElem(creation.resp.data[j]) )
    => CreatedWithBackfill

\* the part of C15 the code keeps: an object that has its heading and lacks
\* order_index or content is no error
MissingOrderOrContentNotAnError ==
    ( /\ ListAnsweredFallbackSound
      /\ \A j \in 1..Len(creation.resp.data) :
             WellFormedElem(creation.resp.data[j]) \/ LacksOrderOrContent(creation.resp.data[j])
      /\ \E j \in 1..Len(creation.resp.data) : LacksOrderOrContent(creation.resp.data[j]) )
    => CreatedWithBackfill

=============================================================================
